---- MODULE Spec2Model ----
(***************************************************************************)
(* Model of the fluid_app backend: the run store (run_store.py), the       *)
(* pipeline orchestrator (simulate.py), the result endpoint (app.py), the  *)
(* domain builder (domain.py), the D3Q19 solver (lbm_torch.py) and the     *)
(* particle advector (advect.py).                                          *)
(*                                                                         *)
(* The specifications of the module:                                       *)
(*   Spec          one run of simulate_run against the run store, with a   *)
(*                 concurrent reader of the result endpoint;               *)
(*   SpecDomain    build_domain_from_stl applied to bounded inputs;        *)
(*   SpecLbm       LbmD3Q19Torch constructed and stepped on a small grid;  *)
(*   SpecUnstable  the same solver outside its stable range;               *)
(*   SpecDims      _dims_from_bounds;                                      *)
(*   SpecAdvect    advect_particles along the gravity axis, any offsets;   *)
(*   SpecSeeded    advect_particles with its random generator;             *)
(*   SpecStore     create_run under simultaneous requests.                 *)
(***************************************************************************)
EXTENDS Integers, Sequences, FiniteSets, TLC

VARIABLES
    \* ---- pipeline (simulate.py, run_store.py, app.py)
    pc,         \* position of simulate_run ("idle" before start_simulation)
    quality,    \* the quality argument of simulate_run
    iter,       \* the loop variable i of the LBM loop (simulate.py:105)
    statusLog,  \* every record written to status.json, oldest first
    result,     \* the file at result_path(run_id): absent, partial, complete
    exc,        \* the stage whose exception the except clause caught, or "none"
    escaped,    \* an exception left simulate_run
    served,     \* the last answer of the result endpoint
    \* ---- domain construction (domain.py)
    dpc,        \* "call" before build_domain_from_stl runs, "returned" after
    mesh,       \* the vertices of the mesh read from the STL file
    srcIn,      \* the source_point_mm argument
    gravityIn,  \* the gravity argument
    domain,     \* the Domain returned
    \* ---- the solver (lbm_torch.py)
    lpc,        \* "ready" between steps, else the substep of step() that is next
    solid,      \* self.solid, self.inlet, self.outlet: sets of cells
    inlet,
    outlet,
    omegaDen,   \* self.omega = 100 / omegaDen
    gravity,    \* self.gravity
    inletDir,   \* self.inlet_dir
    inletSpeed, \* the inlet_speed argument of step()
    updateFill, \* the update_fill argument of the step in progress
    f,          \* self.f[q][cell]
    rho,        \* self.rho[cell]
    u,          \* <<self.ux, self.uy, self.uz>>[cell]
    fill,       \* self.fill_level[cell]
    stepsDone,  \* calls of step() that have returned
    substeps,   \* the substeps run so far, each with its step and that step's update_fill
    \* ---- grid sizing (domain.py _dims_from_bounds)
    gpc,        \* "call" before _dims_from_bounds runs, "returned" after
    boxRanges,  \* the extents of the bounding box along x, y, z, in mm
    baseRes,    \* the base_resolution argument
    dims,       \* the <<nx, ny, nz>> returned
    \* ---- particle advection (advect.py)
    apc,        \* "loop" while advect_particles runs its frames, "returned" after
    avgDx,      \* avg_dx, the grid spacing
    advSolid,   \* the solid argument: the set of solid cells
    advField,   \* the uz argument, per cell, in hundredths of a lattice unit
    grav,       \* gravity_dir along the axis: -1 or 1
    srcRaw,     \* the source_point_mm argument
    birthFrames, \* birth_frames[i]
    offsets,    \* offsets[i]
    pos,        \* pos[i]
    vel,        \* vel[i]
    age,        \* age[i]
    frames,     \* frames[0..t-1]
    frameT,     \* t, the frame the loop is about to run
    rngStream,  \* the numbers rng yields, in the order they are drawn
    rngCount,   \* how many of them have been drawn
    \* ---- the run store under simultaneous requests (run_store.py, app.py)
    now,        \* int(time.time() * 1000), the clock in milliseconds
    runDirs,    \* per run id: is the directory made, and who wrote its files
    cpc,        \* per request: its position in create_run
    runId       \* per request: the run_id it computed (-1 before)

pipeVars == <<pc, quality, iter, statusLog, result, exc, escaped, served>>

domVars == <<dpc, mesh, srcIn, gravityIn, domain>>

lbmVars ==
    <<lpc, solid, inlet, outlet, omegaDen, gravity, inletDir, inletSpeed,
      updateFill, f, rho, u, fill, stepsDone, substeps>>

gridVars == <<gpc, boxRanges, baseRes, dims>>

advVars ==
    <<apc, avgDx, advSolid, advField, grav, srcRaw, birthFrames, offsets, pos, vel,
      age, frames, frameT, rngStream, rngCount>>

storeVars == <<now, runDirs, cpc, runId>>

notPipe == <<domVars, lbmVars, gridVars, advVars, storeVars>>

notDom == <<pipeVars, lbmVars, gridVars, advVars, storeVars>>

notLbm == <<pipeVars, domVars, gridVars, advVars, storeVars>>

notGrid == <<pipeVars, domVars, lbmVars, advVars, storeVars>>

notAdv == <<pipeVars, domVars, lbmVars, gridVars, storeVars>>

notStore == <<pipeVars, domVars, lbmVars, gridVars, advVars>>

vars == <<pipeVars, domVars, lbmVars, gridVars, advVars, storeVars>>

(***************************************************************************)
(* Numbers of the orchestrator.  Progress values are kept as integers in   *)
(* units of 1/ProgressUnit, chosen so that every checkpoint value of every *)
(* tier (0.10 + 0.55*(i+1)/n_iter) is a whole number of units.             *)
(***************************************************************************)
ProgressUnit == 100 * 12000

Pct(hundredths) == hundredths * (ProgressUnit \div 100)

Max(a, b) == IF a >= b THEN a ELSE b

Min(a, b) == IF a <= b THEN a ELSE b

\* The tiers (simulate.py:15), and one string that is none of them:
\* simulate_run takes its quality unchecked.
Qualities == {"low", "medium", "high", "ultra"}

\* simulate.py:18-50
QualityParams(q) ==
    IF q = "low"
    THEN [base_res |-> 128, iterations |-> 800, frames |-> 300, particles |-> 15000]
    ELSE IF q = "high"
    THEN [base_res |-> 256, iterations |-> 3000, frames |-> 600, particles |-> 80000]
    ELSE [base_res |-> 192, iterations |-> 1500, frames |-> 450, particles |-> 40000]

NIter == QualityParams(quality).iterations

(***************************************************************************)
(* run_store.py                                                            *)
(***************************************************************************)
\* run_store.py:19-25: the record create_run writes
QueuedStatus ==
    [state |-> "queued", progress |-> 0, message |-> "queued", traceback |-> FALSE]

\* run_store.py:28-37: progress is clamped to [0,1]; extra adds the traceback
StatusRecord(state, progress, message, extra) ==
    [state |-> state,
     progress |-> Max(0, Min(ProgressUnit, progress)),
     message |-> message,
     traceback |-> extra]

WriteStatus(log, state, progress, message, extra) ==
    Append(log, StatusRecord(state, progress, message, extra))

LastStatus == statusLog[Len(statusLog)]

(***************************************************************************)
(* simulate.py: the checkpoints of simulate_run.  Each checkpoint is one   *)
(* call of store.write_status; the value is what the call is given.        *)
(***************************************************************************)
StatusPcs ==
    {"status_loading", "status_init", "status_lbm", "status_extract",
     "status_advect", "status_saving", "status_done"}

\* CheckpointStatus with the loop's fraction scaled by 0.65 instead of 0.55:
\* the last loop report (0.75) then exceeds the checkpoints that follow it
CheckpointStatusOvershoot(p) ==
    CASE p = "status_loading" ->
            [state |-> "running", progress |-> Pct(1), message |-> "Loading STL mesh..."]
      [] p = "status_init" ->
            [state |-> "running", progress |-> Pct(10), message |-> "Initializing GPU LBM solver..."]
      [] p = "status_lbm" ->
            [state |-> "running",
             progress |-> Pct(10) + (Pct(65) * (iter \div 2)) \div (QualityParams(quality).iterations \div 2),
             message |-> "LBM solver: i/n iterations"]
      [] p = "status_extract" ->
            [state |-> "running", progress |-> Pct(68), message |-> "Extracting velocity field..."]
      [] p = "status_advect" ->
            [state |-> "running", progress |-> Pct(72), message |-> "Advecting particles..."]
      [] p = "status_saving" ->
            [state |-> "running", progress |-> Pct(92), message |-> "Saving results..."]
      [] p = "status_done" ->
            [state |-> "done", progress |-> Pct(100), message |-> "Simulation complete!"]

\* simulate.py:71,84,108-114,116,120,142,155
CheckpointStatus(p) ==
    CASE p = "status_loading" ->
            [state |-> "running", progress |-> Pct(1), message |-> "Loading STL mesh..."]
      [] p = "status_init" ->
            [state |-> "running", progress |-> Pct(10), message |-> "Initializing GPU LBM solver..."]
      [] p = "status_lbm" ->
            [state |-> "running",
             progress |-> Pct(10) + (Pct(55) * iter) \div NIter,
             message |-> "LBM solver: i/n iterations"]
      [] p = "status_extract" ->
            [state |-> "running", progress |-> Pct(68), message |-> "Extracting velocity field..."]
      [] p = "status_advect" ->
            [state |-> "running", progress |-> Pct(72), message |-> "Advecting particles..."]
      [] p = "status_saving" ->
            [state |-> "running", progress |-> Pct(92), message |-> "Saving results..."]
      [] p = "status_done" ->
            [state |-> "done", progress |-> Pct(100), message |-> "Simulation complete!"]

\* simulate.py:168-174: what the except clause writes
ErrorStatus(stage) ==
    [state |-> "error", progress |-> Pct(100), message |-> stage, extra |-> TRUE]

\* simulate.py:105-114: after step i (iter counts the steps done) the loop
\* either reports progress, goes on, or is over
ReportEvery == Max(1, NIter \div 20)

AfterStep(done) ==
    IF done % ReportEvery = 0 THEN "status_lbm"
    ELSE IF done < NIter THEN "lbm_step"
    ELSE "status_extract"

\* AfterStatus with the done record written before the artifact is saved
AfterStatusDoneFirst(p) ==
    CASE p = "status_loading" -> "build_domain"
      [] p = "status_init" -> "lbm_init"
      [] p = "status_lbm" ->
            IF iter < QualityParams(quality).iterations THEN "lbm_step" ELSE "status_extract"
      [] p = "status_extract" -> "extract"
      [] p = "status_advect" -> "advect"
      [] p = "status_saving" -> "status_done"
      [] p = "status_done" -> IF result = "absent" THEN "save_open" ELSE "exit"

\* the statement that follows each checkpoint
AfterStatus(p) ==
    CASE p = "status_loading" -> "build_domain"
      [] p = "status_init" -> "lbm_init"
      [] p = "status_lbm" -> IF iter < NIter THEN "lbm_step" ELSE "status_extract"
      [] p = "status_extract" -> "extract"
      [] p = "status_advect" -> "advect"
      [] p = "status_saving" -> "save_open"
      [] p = "status_done" -> "exit"

\* the stages of the try block that compute (and may raise), with the
\* statement that follows each
StagePcs == {"build_domain", "lbm_init", "extract", "advect"}

\* AfterStage with the artifact saved straight after the velocity field is
\* extracted
AfterStageNoAdvect(p) ==
    CASE p = "build_domain" -> "status_init"
      [] p = "lbm_init" ->
            IF QualityParams(quality).iterations > 0 THEN "lbm_step" ELSE "status_extract"
      [] p = "extract" -> "status_saving"
      [] p = "advect" -> "status_saving"

AfterStage(p) ==
    CASE p = "build_domain" -> "status_init"
      [] p = "lbm_init" -> IF NIter > 0 THEN "lbm_step" ELSE "status_extract"
      [] p = "extract" -> "status_advect"
      [] p = "advect" -> "status_saving"

InTry == StatusPcs \cup StagePcs \cup {"lbm_step", "save_open", "save_write"}

(***************************************************************************)
(* Actions of the pipeline                                                 *)
(***************************************************************************)
\* app.py:41-70 start_simulation: create_run writes the queued record and
\* the background task is scheduled
StartSimulation ==
    /\ pc = "idle"
    /\ \E q \in Qualities : quality' = q
    /\ statusLog' = <<QueuedStatus>>
    /\ pc' = "status_loading"
    /\ UNCHANGED <<iter, result, exc, escaped, served>>
    /\ UNCHANGED notPipe

\* a write_status call of the try block that returns
Checkpoint ==
    /\ pc \in StatusPcs
    /\ LET s == CheckpointStatus(pc)
       IN statusLog' = WriteStatus(statusLog, s.state, s.progress, s.message, FALSE)
    /\ pc' = AfterStatus(pc)
    /\ UNCHANGED <<quality, iter, result, exc, escaped, served>>
    /\ UNCHANGED notPipe

\* simulate.py:73-104, 117-140: a computing stage that returns
Stage ==
    /\ pc \in StagePcs
    /\ pc' = AfterStage(pc)
    /\ UNCHANGED <<quality, iter, statusLog, result, exc, escaped, served>>
    /\ UNCHANGED notPipe

\* simulate.py:105-107: one lbm.step of the loop
LbmIteration ==
    /\ pc = "lbm_step"
    /\ iter' = iter + 1
    /\ pc' = AfterStep(iter + 1)
    /\ UNCHANGED <<quality, statusLog, result, exc, escaped, served>>
    /\ UNCHANGED notPipe

\* simulate.py:144-153: np.savez_compressed opens result_path for writing ...
SaveOpen ==
    /\ pc = "save_open"
    /\ result' = "partial"
    /\ pc' = "save_write"
    /\ UNCHANGED <<quality, iter, statusLog, exc, escaped, served>>
    /\ UNCHANGED notPipe

\* ... and writes the arrays into it
SaveWrite ==
    /\ pc = "save_write"
    /\ result' = "complete"
    /\ pc' = "status_done"
    /\ UNCHANGED <<quality, iter, statusLog, exc, escaped, served>>
    /\ UNCHANGED notPipe

\* simulate.py:157: any statement of the try block raises; control goes to
\* the except clause and nothing is undone
Raise ==
    /\ pc \in InTry
    /\ exc' = pc
    /\ pc' = "handler"
    /\ UNCHANGED <<quality, iter, statusLog, result, escaped, served>>
    /\ UNCHANGED notPipe

\* simulate.py:158-174: the except clause writes the error record
Handler ==
    /\ pc = "handler"
    /\ LET s == ErrorStatus(exc)
       IN statusLog' = WriteStatus(statusLog, s.state, s.progress, s.message, s.extra)
    /\ pc' = "exit"
    /\ UNCHANGED <<quality, iter, result, exc, escaped, served>>
    /\ UNCHANGED notPipe

\* simulate.py:168: the write_status of the except clause raises like any
\* other write_status; nothing catches it
HandlerRaise ==
    /\ pc = "handler"
    /\ escaped' = TRUE
    /\ pc' = "exit"
    /\ UNCHANGED <<quality, iter, statusLog, result, exc, served>>
    /\ UNCHANGED notPipe

\* app.py:81-89 run_result: 404 for an unknown run, 409 while the result
\* path does not exist, else the file as it is
RunResult ==
    /\ served' = IF result # "absent" THEN result
                 ELSE IF statusLog = <<>> THEN "404" ELSE "409"
    /\ UNCHANGED <<pc, quality, iter, statusLog, result, exc, escaped>>
    /\ UNCHANGED notPipe

(***************************************************************************)
(* domain.py: build_domain_from_stl on a two-axis grid (x and z).  Lengths *)
(* are whole millimetres; a point is <<x, z>>, a cell <<i, k>>.  The grid  *)
(* extents are bounds of the model in place of _dims_from_bounds, whose    *)
(* smallest result (32) is out of reach of a model checker.                *)
(***************************************************************************)
GridNX == 5

GridNZ == 3

Axes == {1, 2}

GridN(a) == IF a = 1 THEN GridNX ELSE GridNZ

Cells == (0..(GridNX - 1)) \X (0..(GridNZ - 1))

\* domain.py:198
PaddingMm == 5

\* domain.py:230
MinSourceRadiusMm == 20

\* domain.py:261
MinInletCells == 100

SetMin(S) == CHOOSE x \in S : \A y \in S : x <= y

SetMax(S) == CHOOSE x \in S : \A y \in S : x >= y

RECURSIVE SumOver(_, _)
SumOver(S, a) ==
    IF S = {} THEN 0
    ELSE LET p == CHOOSE q \in S : TRUE IN p[a] + SumOver(S \ {p}, a)

\* numpy mean(axis=0) of a set of points, to the millimetre
MeanPoint(S) == [a \in Axes |-> SumOver(S, a) \div Cardinality(S)]

DistSq(p, q) == (p[1] - q[1]) * (p[1] - q[1]) + (p[2] - q[2]) * (p[2] - q[2])

\* numpy.clip
Clip(v, lo, hi) == Min(Max(v, lo), hi)

\* The meshes the model reads: a thin slab far from the origin, a box
\* centred on the origin, and the slab with one vertex hanging below it.
MeshSlab == {<<100, 0>>, <<300, 0>>, <<100, 4>>, <<300, 4>>}

MeshBox == {<<-30, -30>>, <<30, -30>>, <<-30, 30>>, <<30, 30>>}

MeshSpout == MeshSlab \cup {<<300, -36>>}

Meshes == {MeshSlab, MeshBox, MeshSpout}

\* the source points and gravity vectors of the requests
SourcePoints ==
    {<<0, 0>>, <<100, 2>>, <<200, 2>>, <<300, 2>>, <<500, 2>>, <<-90, 0>>}

Gravities == {<<0, -1>>, <<0, 0>>, <<1, 0>>, <<0, 3>>}

\* domain.py:133 mesh.bounds: b[0], b[2] ... and b[1], b[3] ...
BLo(m) == [a \in Axes |-> SetMin({p[a] : p \in m})]

BHi(m) == [a \in Axes |-> SetMax({p[a] : p \in m})]

\* domain.py:140-142
MeshCenter(m) == [a \in Axes |-> (BLo(m)[a] + BHi(m)[a]) \div 2]

MaxDim(m) == SetMax({BHi(m)[a] - BLo(m)[a] : a \in Axes})

\* domain.py:49-54 _normalize, on the axis-aligned vectors the model draws
Sgn(x) == IF x > 0 THEN 1 ELSE IF x < 0 THEN -1 ELSE 0

Normalize(v) ==
    IF v[1] = 0 /\ v[2] = 0 THEN <<0, -1>> ELSE <<Sgn(v[1]), Sgn(v[2])>>

\* domain.py:147-192: the source point the rest of the construction uses
ClampSource(m, src) ==
    LET lo == BLo(m)
        hi == BHi(m)
        maxDim == MaxDim(m)
        inBounds == \A a \in Axes : lo[a] <= src[a] /\ src[a] <= hi[a]
        centered == [a \in Axes |-> src[a] + MeshCenter(m)[a]]
        \* b - max_dim*0.1 <= src_centered <= b + max_dim*0.1, times 10
        centeredIn ==
            \A a \in Axes : /\ 10 * lo[a] - maxDim <= 10 * centered[a]
                            /\ 10 * centered[a] <= 10 * hi[a] + maxDim
        \* |mesh_center| > max_dim*0.5, squared and times 4
        far ==
            (lo[1] + hi[1]) * (lo[1] + hi[1]) + (lo[2] + hi[2]) * (lo[2] + hi[2])
                > maxDim * maxDim
        margin == maxDim \div 20
    IN IF inBounds THEN src
       ELSE IF centeredIn /\ far
       THEN [a \in Axes |-> Clip(centered[a], lo[a] + 1, hi[a] - 1)]
       ELSE [a \in Axes |-> Clip(src[a], lo[a] + margin, hi[a] - margin)]

\* domain.py:199-201 numpy.linspace over the padded bounds
Linspace(lo, hi, n, k) == lo + (k * (hi - lo)) \div (n - 1)

Coords(m, a) ==
    [k \in 0..(GridN(a) - 1) |->
        Linspace(BLo(m)[a] - PaddingMm, BHi(m)[a] + PaddingMm, GridN(a), k)]

\* domain.py:204-205 lattice_pts
CellPoint(m, c) == <<Coords(m, 1)[c[1]], Coords(m, 2)[c[2]]>>

\* domain.py:209-211: select_enclosed_points encloses no lattice point
\* outside the mesh bounds; which of the others it encloses is the mesh's
\* business
EnclosableCells(m) ==
    {c \in Cells : \A a \in Axes : /\ BLo(m)[a] <= CellPoint(m, c)[a]
                                  /\ CellPoint(m, c)[a] <= BHi(m)[a]}

\* domain.py:222
DxMm(m) ==
    SetMin({(Coords(m, a)[GridN(a) - 1] - Coords(m, a)[0]) \div (GridN(a) - 1) : a \in Axes})

\* domain.py:230
SourceRadiusMm(m) == Max(MinSourceRadiusMm, 10 * DxMm(m))

\* domain.py:232-238 select_sphere; the radius is given doubled, so that
\* the outlet's 1.5 * source_radius stays a whole number
SelectSphere(m, center, radius2) ==
    {c \in Cells : 4 * DistSq(CellPoint(m, c), center) <= radius2 * radius2}

\* domain.py:261-262: the sets argsort(dists)[:n_inlet_target] can select
NearestFluid(m, fluid, src) ==
    LET target == Max(MinInletCells, Cardinality(fluid) \div 100)
        n == Min(target, Cardinality(fluid))
    IN {T \in SUBSET fluid :
          /\ Cardinality(T) = n
          /\ \A c \in T : \A d \in fluid \ T :
                DistSq(CellPoint(m, c), src) <= DistSq(CellPoint(m, d), src)}

\* domain.py:280-291: the centre of the vertices whose projection on the
\* gravity direction is at most its 10th percentile (numpy.percentile,
\* linear interpolation; compared times 10)
Proj(p, g) == p[1] * g[1] + p[2] * g[2]

KthProj(m, g, k) ==
    CHOOSE v \in {Proj(p, g) : p \in m} :
        /\ Cardinality({p \in m : Proj(p, g) < v}) <= k
        /\ k < Cardinality({p \in m : Proj(p, g) <= v})

LowThreshold10(m, g) ==
    LET n == Cardinality(m)
        lo == (n - 1) \div 10
        hi == Min(lo + 1, n - 1)
    IN 10 * KthProj(m, g, lo) + ((n - 1) % 10) * (KthProj(m, g, hi) - KthProj(m, g, lo))

LowCenter(m, g) ==
    LET low == {p \in m : 10 * Proj(p, g) <= LowThreshold10(m, g)}
    IN IF low # {} THEN MeanPoint(low)
       ELSE CHOOSE p \in m : \A q \in m : Proj(p, g) <= Proj(q, g)

\* domain.py:115-324: the Domain built from a mesh, a source point, a
\* gravity vector, the lattice points the mesh encloses and the cells the
\* inlet is retargeted to when the sphere holds no fluid
BuildDomain(m, src, g, inside, nearest) ==
    LET clamped == ClampSource(m, src)
        solid0 == Cells \ inside
        gravityDir == Normalize(g)
        radius == SourceRadiusMm(m)
        inlet0 == SelectSphere(m, clamped, 2 * radius) \ solid0
        retarget == inlet0 = {} /\ inside # {}
        inletMask == IF retarget THEN nearest ELSE inlet0
        source == IF retarget
                  THEN MeanPoint({CellPoint(m, c) : c \in nearest})
                  ELSE clamped
        outletMask == SelectSphere(m, LowCenter(m, gravityDir), 3 * radius) \ solid0
    IN [nx |-> GridNX,
        nz |-> GridNZ,
        x_coords |-> Coords(m, 1),
        z_coords |-> Coords(m, 2),
        solid |-> (solid0 \ inletMask) \ outletMask,
        inlet |-> inletMask,
        outlet |-> outletMask,
        gravity_dir |-> gravityDir,
        source_point_mm |-> source]

NoDomain ==
    [nx |-> 0, nz |-> 0, x_coords |-> <<>>, z_coords |-> <<>>, solid |-> {},
     inlet |-> {}, outlet |-> {}, gravity_dir |-> <<0, 0>>,
     source_point_mm |-> <<0, 0>>]

\* build_domain_from_stl is called and returns
BuildDomainFromStl ==
    /\ dpc = "call"
    /\ \E inside \in SUBSET EnclosableCells(mesh) :
         \E nearest \in NearestFluid(mesh, inside, ClampSource(mesh, srcIn)) :
            domain' = BuildDomain(mesh, srcIn, gravityIn, inside, nearest)
    /\ dpc' = "returned"
    /\ UNCHANGED <<mesh, srcIn, gravityIn>>
    /\ UNCHANGED notDom

(***************************************************************************)
(* lbm_torch.py: LbmD3Q19Torch on a grid of 1 x 1 x LbmNZ cells; a cell is *)
(* its z index.  torch.roll along an axis of extent 1 is the identity, so  *)
(* streaming moves a population by the z component of its direction only.  *)
(*                                                                         *)
(* The float32 fields are fixed-point numbers, rounded to the nearest      *)
(* unit: velocities and gravity in units of 1/VelUnit, densities and       *)
(* populations in units of 1/RhoUnit, fill levels in units of 1/FillUnit.  *)
(* RhoUnit = 72 * VelUnit^2 makes the equilibrium of density 1 exact.      *)
(***************************************************************************)
LbmNZ == 3

MaxSteps == 2

VelUnit == 5 * 5

RhoUnit == 72 * VelUnit * VelUnit

FillUnit == 25 * VelUnit

LbmCells == 0..(LbmNZ - 1)

Dirs == 0..18

\* a / b rounded to the nearest whole number, b > 0
RDiv(a, b) == (a + b \div 2) \div b

Dot(v, w) == v[1] * w[1] + v[2] * w[2] + v[3] * w[3]

\* lbm_torch.py:34-54 _c_np
LatticeC ==
    [q \in Dirs |->
        CASE q = 0 -> <<0, 0, 0>>
          [] q = 1 -> <<1, 0, 0>>    [] q = 2 -> <<-1, 0, 0>>
          [] q = 3 -> <<0, 1, 0>>    [] q = 4 -> <<0, -1, 0>>
          [] q = 5 -> <<0, 0, 1>>    [] q = 6 -> <<0, 0, -1>>
          [] q = 7 -> <<1, 1, 0>>    [] q = 8 -> <<-1, 1, 0>>
          [] q = 9 -> <<1, -1, 0>>   [] q = 10 -> <<-1, -1, 0>>
          [] q = 11 -> <<1, 0, 1>>   [] q = 12 -> <<-1, 0, 1>>
          [] q = 13 -> <<1, 0, -1>>  [] q = 14 -> <<-1, 0, -1>>
          [] q = 15 -> <<0, 1, 1>>   [] q = 16 -> <<0, -1, 1>>
          [] q = 17 -> <<0, 1, -1>>  [] q = 18 -> <<0, -1, -1>>]

\* lbm_torch.py:57-61 _w_np, times 36
Weight36 == [q \in Dirs |-> IF q = 0 THEN 12 ELSE IF q <= 6 THEN 2 ELSE 1]

\* lbm_torch.py:64 _opp_np
Opposite ==
    [q \in Dirs |->
        <<0, 2, 1, 4, 3, 6, 5, 10, 9, 8, 7, 14, 13, 12, 11, 18, 17, 16, 15>>[q + 1]]

\* lbm_torch.py:173-178 _equilibrium at one cell:
\* w * rho * (1 + 3 cu + 4.5 cu^2 - 1.5 u^2)
Equilibrium(q, r, v) ==
    LET cu == Dot(LatticeC[q], v)
        poly == 2 * VelUnit * VelUnit + 6 * VelUnit * cu + 9 * cu * cu - 3 * Dot(v, v)
    IN RDiv(Weight36[q] * r * poly, 72 * VelUnit * VelUnit)

\* lbm_torch.py:191-213: the Guo forcing term of one population,
\* (1 - omega/2) * w * rho * (3 (c - u).g + 9 (c.u)(c.g))
Forcing(q, r, v, g, oDen) ==
    LET c == LatticeC[q]
        cmu == [a \in 1..3 |-> c[a] * VelUnit - v[a]]
        term == 3 * Dot(cmu, g) + 9 * Dot(c, v) * Dot(c, g)
        wRhoTerm == RDiv(Weight36[q] * r * term, 36 * VelUnit * VelUnit)
    IN RDiv((2 * oDen - 100) * wRhoTerm, 2 * oDen)

\* lbm_torch.py:180-213 _collide_with_forcing
Collided(ff, r, v, g, oDen) ==
    [q \in Dirs |-> [z \in LbmCells |->
        LET feq == Equilibrium(q, r[z], v[z])
            bgk == ff[q][z] - RDiv(100 * (ff[q][z] - feq), oDen)
        IN IF g = <<0, 0, 0>> THEN bgk
           ELSE bgk + Forcing(q, r[z], v[z], g, oDen)]]

\* a variant that shifts without wrapping: what leaves the grid is lost
StreamedNoWrap(ff) ==
    [q \in Dirs |-> [z \in LbmCells |->
        IF z - LatticeC[q][3] \in LbmCells THEN ff[q][z - LatticeC[q][3]] ELSE 0]]

\* lbm_torch.py:215-223 _stream: torch.roll by c_q in a new buffer
Streamed(ff) ==
    [q \in Dirs |-> [z \in LbmCells |-> ff[q][(z - LatticeC[q][3]) % LbmNZ]]]

\* lbm_torch.py:228-231: the bounce-back loop, in place, q = from..18
RECURSIVE BounceBack(_, _, _)
BounceBack(ff, mask, from) ==
    IF from > 18 THEN ff
    ELSE BounceBack(
            [ff EXCEPT ![from] =
                [z \in LbmCells |-> IF z \in mask THEN ff[Opposite[from]][z] ELSE ff[from][z]]],
            mask, from + 1)

\* lbm_torch.py:236-239 and 249: rho and u after the inlet and outlet rules
InletRho(r, inl, outl) ==
    [z \in LbmCells |-> IF z \in inl \cup outl THEN RhoUnit ELSE r[z]]

InletVelocity(v, inl, dir, speed) ==
    [z \in LbmCells |-> IF z \in inl THEN [a \in 1..3 |-> dir[a] * speed] ELSE v[z]]

\* lbm_torch.py:241-243: the inlet populations become the equilibrium
InletPopulations(ff, r, v, inl) ==
    [q \in Dirs |-> [z \in LbmCells |->
        IF z \in inl THEN Equilibrium(q, r[z], v[z]) ELSE ff[q][z]]]

\* lbm_torch.py:135, 245, 289
PinInletFill(fl, inl) == [z \in LbmCells |-> IF z \in inl THEN FillUnit ELSE fl[z]]

\* lbm_torch.py:253-254: rho = sum f, clamped from below (1e-10 there, one
\* unit here)
RECURSIVE SumF(_, _, _)
SumF(ff, z, q) == IF q > 18 THEN 0 ELSE ff[q][z] + SumF(ff, z, q + 1)

RECURSIVE SumFC(_, _, _, _)
SumFC(ff, z, a, q) ==
    IF q > 18 THEN 0 ELSE ff[q][z] * LatticeC[q][a] + SumFC(ff, z, a, q + 1)

Density(ff) == [z \in LbmCells |-> Max(SumF(ff, z, 0), 1)]

\* lbm_torch.py:257-266: u = (sum f c) / rho, plus g / 2 when g is not zero
Momentum(ff, r, g) ==
    [z \in LbmCells |-> [a \in 1..3 |->
        RDiv(SumFC(ff, z, a, 0) * VelUnit, r[z])
            + (IF g = <<0, 0, 0>> THEN 0 ELSE RDiv(g[a], 2))]]

\* a variant that leaves the velocity of the solid cells as computed
ZeroOnSolidSkipped(v, mask) == v

\* lbm_torch.py:269-271
ZeroOnSolid(v, mask) ==
    [z \in LbmCells |-> IF z \in mask THEN <<0, 0, 0>> ELSE v[z]]

\* lbm_torch.py:279-285: upwind transport of the fill level.  Along x and y
\* the neighbours of a cell are the cell itself.
Abs(x) == IF x < 0 THEN -x ELSE x

FillFlux(fl, v, z, a) ==
    LET fillPos == IF a = 3 THEN fl[(z - 1) % LbmNZ] ELSE fl[z]
        fillNeg == IF a = 3 THEN fl[(z + 1) % LbmNZ] ELSE fl[z]
        fluxIn == IF v[z][a] > 0 THEN fillPos * v[z][a] ELSE fillNeg * (-v[z][a])
        fluxOut == fl[z] * Abs(v[z][a])
    IN RDiv(2 * (fluxIn - fluxOut), 25 * VelUnit)

\* lbm_torch.py:273-290 _update_fill_level
FillUpdated(fl, v, sol, inl) ==
    LET moved == [z \in LbmCells |->
                    fl[z] + FillFlux(fl, v, z, 1) + FillFlux(fl, v, z, 2) + FillFlux(fl, v, z, 3)]
        clamped == [z \in LbmCells |-> Max(0, Min(FillUnit, moved[z]))]
        noSolid == [z \in LbmCells |-> IF z \in sol THEN 0 ELSE clamped[z]]
    IN PinInletFill(noSolid, inl)

\* a variant that applies the boundaries before streaming
StepOrderBoundariesFirst == <<"collide", "boundaries", "stream", "macroscopic", "fill">>

\* lbm_torch.py:292-299 step: the substeps in the order step() calls them
StepOrder == <<"collide", "stream", "boundaries", "macroscopic", "fill">>

\* the substep after the k-th of a step, or "ready" when step() returns
SubstepAfter(k, withFill) ==
    IF k < 4 \/ (k = 4 /\ withFill) THEN StepOrder[k + 1] ELSE "ready"

\* the position in StepOrder of the substep that is next
Position == CHOOSE k \in 1..5 : StepOrder[k] = lpc

\* the substep at lpc has run; step() returns when no substep is left
Advance ==
    /\ lpc' = SubstepAfter(Position, updateFill)
    /\ substeps' = Append(substeps,
                        [step |-> stepsDone + 1, substep |-> lpc, update_fill |-> updateFill])
    /\ stepsDone' = IF SubstepAfter(Position, updateFill) = "ready"
                    THEN stepsDone + 1 ELSE stepsDone

\* lbm_torch.py:292: step(inlet_speed, update_fill) is called.  The loop of
\* simulate.py:104-106 calls it once per iteration, with update_fill left
\* at its default, True.
StepCall ==
    /\ lpc = "ready"
    /\ stepsDone < MaxSteps
    /\ \E b \in BOOLEAN : updateFill' = b
    /\ lpc' = StepOrder[1]
    /\ UNCHANGED <<solid, inlet, outlet, omegaDen, gravity, inletDir, inletSpeed,
                   f, rho, u, fill, stepsDone, substeps>>
    /\ UNCHANGED notLbm

CollideWithForcing ==
    /\ lpc = "collide"
    /\ f' = Collided(f, rho, u, gravity, omegaDen)
    /\ Advance
    /\ UNCHANGED <<solid, inlet, outlet, omegaDen, gravity, inletDir, inletSpeed,
                   updateFill, rho, u, fill>>
    /\ UNCHANGED notLbm

Stream ==
    /\ lpc = "stream"
    /\ f' = Streamed(f)
    /\ Advance
    /\ UNCHANGED <<solid, inlet, outlet, omegaDen, gravity, inletDir, inletSpeed,
                   updateFill, rho, u, fill>>
    /\ UNCHANGED notLbm

\* lbm_torch.py:225-249 _apply_boundaries
ApplyBoundaries ==
    /\ lpc = "boundaries"
    /\ LET bounced == BounceBack(f, solid, 0)
           r == InletRho(rho, inlet, {})
           v == InletVelocity(u, inlet, inletDir, inletSpeed)
       IN /\ f' = InletPopulations(bounced, r, v, inlet)
          /\ rho' = InletRho(rho, inlet, outlet)
          /\ u' = v
    /\ fill' = PinInletFill(fill, inlet)
    /\ Advance
    /\ UNCHANGED <<solid, inlet, outlet, omegaDen, gravity, inletDir, inletSpeed,
                   updateFill>>
    /\ UNCHANGED notLbm

\* lbm_torch.py:251-271 _compute_macroscopic
ComputeMacroscopic ==
    /\ lpc = "macroscopic"
    /\ rho' = Density(f)
    /\ u' = ZeroOnSolid(Momentum(f, Density(f), gravity), solid)
    /\ Advance
    /\ UNCHANGED <<solid, inlet, outlet, omegaDen, gravity, inletDir, inletSpeed,
                   updateFill, f, fill>>
    /\ UNCHANGED notLbm

UpdateFillLevel ==
    /\ lpc = "fill"
    /\ fill' = FillUpdated(fill, u, solid, inlet)
    /\ Advance
    /\ UNCHANGED <<solid, inlet, outlet, omegaDen, gravity, inletDir, inletSpeed,
                   updateFill, f, rho, u>>
    /\ UNCHANGED notLbm

\* The solvers the model builds.  Masks: any in which no inlet or outlet
\* cell is solid, which is what build_domain_from_stl hands over
\* (domain.py:304-305).  The inlet direction is the gravity direction
\* (simulate.py:99), the gravity that direction times a magnitude
\* (domain.py:106); the viscosity is a tier's nu_lbm, in hundredths.
LbmDirections == {<<0, 0, -1>>, <<1, 0, 0>>}

GravityMagnitudes == {0, 2}

InletSpeeds == {1, 2}

Viscosities == {6}

\* lbm_torch.py:127-145: the fields __init__ leaves: rho 1, u 0, fill 1 on
\* the inlet and 0 elsewhere, f at equilibrium
FieldsAfterInit ==
    /\ updateFill = TRUE
    /\ rho = [z \in LbmCells |-> RhoUnit]
    /\ u = [z \in LbmCells |-> <<0, 0, 0>>]
    /\ fill = PinInletFill([z \in LbmCells |-> 0], inlet)
    /\ f = [q \in Dirs |-> [z \in LbmCells |-> Equilibrium(q, RhoUnit, <<0, 0, 0>>)]]
    /\ stepsDone = 0
    /\ substeps = <<>>

\* lbm_torch.py:66-157 __init__, then set_inlet_direction (159-167)
InitLbm ==
    /\ lpc = "ready"
    /\ solid \in SUBSET LbmCells
    /\ inlet \in SUBSET (LbmCells \ solid)
    /\ outlet \in SUBSET (LbmCells \ solid)
    /\ \E nu \in Viscosities : omegaDen = 3 * nu + 50
    /\ inletDir \in LbmDirections
    /\ \E g \in GravityMagnitudes : gravity = [a \in 1..3 |-> inletDir[a] * g]
    /\ inletSpeed \in InletSpeeds
    /\ FieldsAfterInit

\* The settings the pipeline's clamps exclude and the solver is handed all
\* the same: a viscosity of 0 (tau = 0.5), an inlet speed of 0.12.
\* lbm_torch.py:93-95 computes tau and omega from any nu_lbm, and step()
\* (292-299) takes any inlet_speed.
MaxInletSpeed == (8 * VelUnit) \div 100

UnstableSettings ==
    {<<0, MaxInletSpeed>>, <<6, MaxInletSpeed + 1>>, <<0, MaxInletSpeed + 1>>}

InitUnstableLbm ==
    /\ lpc = "ready"
    /\ solid \in SUBSET LbmCells
    /\ inlet \in SUBSET (LbmCells \ solid)
    /\ outlet = {}
    /\ inletDir \in LbmDirections
    /\ gravity = [a \in 1..3 |-> inletDir[a] * 2]
    /\ \E s \in UnstableSettings : omegaDen = 3 * s[1] + 50 /\ inletSpeed = s[2]
    /\ FieldsAfterInit

IdleLbm ==
    /\ lpc = "none"
    /\ solid = {}
    /\ inlet = {}
    /\ outlet = {}
    /\ omegaDen = 0
    /\ gravity = <<0, 0, 0>>
    /\ inletDir = <<0, 0, 0>>
    /\ inletSpeed = 0
    /\ updateFill = FALSE
    /\ f = <<>>
    /\ rho = <<>>
    /\ u = <<>>
    /\ fill = <<>>
    /\ stepsDone = 0
    /\ substeps = <<>>

(***************************************************************************)
(* domain.py: _dims_from_bounds.  Extents are whole millimetres.           *)
(***************************************************************************)
MinCells == 32

MaxCells == 320

\* domain.py:62-65: max_range = max(x_range, y_range, z_range, 1e-6)
MaxRange(ranges) == SetMax({ranges[a] : a \in 1..3})

\* domain.py:67-69 and 73-75: int() of the quotient, then the two clamps.
\* With every extent 0 the quotient is 0 / 1e-6 = 0.
DimOf(range, maxRange, res) ==
    LET quotient == IF maxRange = 0 THEN 0 ELSE (res * range) \div maxRange
    IN Min(Max(quotient, MinCells), MaxCells)

\* domain.py:57-77
DimsFromBounds(ranges, res) ==
    [a \in 1..3 |-> DimOf(ranges[a], MaxRange(ranges), res)]

\* the extents and resolutions the model sizes grids for
Extents == {0, 10, 45, 70, 100, 250}

BaseResolutions == {QualityParams(q).base_res : q \in Qualities}

\* _dims_from_bounds is called and returns
DimsFromBoundsCall ==
    /\ gpc = "call"
    /\ dims' = DimsFromBounds(boxRanges, baseRes)
    /\ gpc' = "returned"
    /\ UNCHANGED <<boxRanges, baseRes>>
    /\ UNCHANGED notGrid

IdleGrid ==
    /\ gpc = "none"
    /\ boxRanges = <<0, 0, 0>>
    /\ baseRes = 0
    /\ dims = <<0, 0, 0>>

(***************************************************************************)
(* advect.py: advect_particles along one axis, the axis of gravity.        *)
(* Lengths are in half millimetres; the grid has AdvNZ points, AdvDx       *)
(* apart, the first at 0.  Velocities are lengths per frame.  The grid     *)
(* simulate_run hands over has at least 32 points on every axis            *)
(* (domain.py:67-69) and 5 mm of padding on each side (domain.py:198), so  *)
(* its extent is never less than the emission radius, and a point of it    *)
(* can be more than 25 spacings from the nearest solid.                    *)
(***************************************************************************)
AdvNZ == 32

NParticles == 2

NFrames == 3

HalfMm(mm) == 2 * mm

\* advect.py:57-61: the grid spacing
AdvDx == avgDx

AdvCells == 0..(AdvNZ - 1)

Particles == 1..NParticles

\* advect.py:50-53: the bounds of the grid and domain_size
ZCoord(k) == k * AdvDx

ZMin == ZCoord(0)

ZMax == ZCoord(AdvNZ - 1)

DomainSize == ZMax - ZMin

\* advect.py:139-159: the physics parameters
EmitRadius == Max(HalfMm(8), 4 * AdvDx)

EmitSpeed == 2 * AdvDx

VelocityScale == 150 * AdvDx

GravityAccel == 5 * AdvDx

MaxGravitySpeed == 15 * AdvDx

SurfaceThickness == 4 * AdvDx

SurfaceAttraction == AdvDx \div 2

MaxDistanceFromSurface == 25 * AdvDx

ParticleLifetime == (3 * NFrames) \div 2

MaxSpeed == 20 * AdvDx

\* advect.py:182: emission_duration
EmissionDuration == Max(1, (NFrames * 3) \div 4)

\* advect.py:101-108: the signed distance at a grid point: the distance to
\* the nearest solid point for a fluid point, minus the distance to the
\* nearest fluid point for a solid one
SignedDistance(sol) ==
    [k \in AdvCells |->
        IF k \notin sol
        THEN AdvDx * SetMin({Abs(k - j) : j \in sol})
        ELSE -AdvDx * SetMin({Abs(k - j) : j \in AdvCells \ sol})]

\* scipy RegularGridInterpolator, linear, with a fill value outside the grid
Interp(values, p, fillValue) ==
    IF p < ZMin \/ p > ZMax THEN fillValue
    ELSE LET k == Min((p - ZMin) \div AdvDx, AdvNZ - 2)
         IN values[k] + RDiv((values[k + 1] - values[k]) * (p - ZCoord(k)), AdvDx)

\* advect.py:117-129 and 222-225: the field velocity at a position
FieldVel(field, p) == RDiv(Interp(field, p, 0) * VelocityScale, 100)

\* advect.py:132-135: interp_sdf, -100 mm outside the grid
Sdf(sol, p) == Interp(SignedDistance(sol), p, -HalfMm(100))

\* advect.py:270-286 and 300-316: the unit gradient of the signed distance,
\* -grav where the gradient vanishes
SdfNormal(sol, g, p) ==
    LET eps == AdvDx \div 2
        gradient == Sdf(sol, p + eps) - Sdf(sol, p - eps)
    IN IF gradient > 0 THEN 1 ELSE IF gradient < 0 THEN -1 ELSE -g

\* advect.py:68-96: the source the particles are emitted from
AdvectSource(sol, raw) ==
    LET clamped == Clip(raw, ZMin + AdvDx, ZMax - AdvDx)
        iz == Clip((clamped - ZMin) \div AdvDx, 0, AdvNZ - 1)
        fluid == AdvCells \ sol
        nearest == CHOOSE k \in fluid :
                      \A j \in fluid :
                          \/ Abs(ZCoord(k) - clamped) < Abs(ZCoord(j) - clamped)
                          \/ (Abs(ZCoord(k) - clamped) = Abs(ZCoord(j) - clamped) /\ k <= j)
    IN IF iz \in sol /\ fluid # {} THEN ZCoord(nearest) ELSE clamped

\* advect.py:95: src
Src == AdvectSource(advSolid, srcRaw)

\* advect.py:204: grav * emit_speed_mm
EmitVel == grav * EmitSpeed

\* advect.py:220-222: not_born = birth_frames > t, and the state such a
\* particle is reset to
NotBorn(i, tt) == birthFrames[i] > tt

\* a variant that leaves an unborn particle where it is
PinnedNowhere(i, tt) == [pos |-> pos[i], vel |-> vel[i], age |-> age[i]]

Pinned(i, tt) ==
    IF NotBorn(i, tt)
    THEN [pos |-> Src + offsets[i], vel |-> EmitVel, age |-> 0]
    ELSE [pos |-> pos[i], vel |-> vel[i], age |-> age[i]]

\* the only element of a singleton.  An intermediate result is bound to a
\* variable ranging over a singleton, so that it is computed once.
TheOne(S) == CHOOSE x \in S : TRUE

\* advect.py:238-262: steps 1-3: momentum and field velocity, gravity, and
\* the terminal velocity along gravity
Accelerated(v, fieldVel) ==
    grav * Min((RDiv(85 * v + 15 * fieldVel, 100) + grav * GravityAccel) * grav,
               MaxGravitySpeed)

\* advect.py:264-292: step 4: near a surface the velocity loses 0.7 of its
\* normal component and is attracted to the surface
Slid(v, sdf, normal) ==
    IF sdf > 0 /\ sdf < SurfaceThickness
    THEN v - RDiv(7 * (v * normal) * normal, 10) - normal * SurfaceAttraction
    ELSE v

\* advect.py:294-325: step 5: inside the solid the particle is pushed out
\* and its velocity reflected
PushedOut(p, sdf, normal) ==
    IF sdf < 0 THEN p + normal * (Abs(sdf) + AdvDx) ELSE p

Reflected(v, sdf, normal) ==
    IF sdf < 0 THEN v - RDiv(18 * (v * normal) * normal, 10) ELSE v

\* advect.py:327-330: step 6: the speed cap
Capped(v) == IF Abs(v) > MaxSpeed THEN Sgn(v) * MaxSpeed ELSE v

\* advect.py:332-335: step 7: new_pos = active_pos + active_vel
Moved(p, v, sdf, normal) ==
    TheOne({[pos |-> PushedOut(p, sdf, normal) + v6, vel |-> v6] :
              v6 \in {Capped(Reflected(Slid(v, sdf, normal), sdf, normal))}})

\* advect.py:238-335: the physics update of one particle: its candidate
\* position new_pos and its velocity
Candidate(p, v) ==
    TheOne({Moved(p, v3, sdf, normal) :
              v3 \in {Accelerated(v, FieldVel(advField, p))},
              sdf \in {Sdf(advSolid, p)},
              normal \in {SdfNormal(advSolid, grav, p)}})

\* a variant that never finds a position far out
FarOutNever(p) == FALSE

\* advect.py:339-343
FarOut(p) == p < ZMin - DomainSize \/ p > ZMax + DomainSize

\* a variant that respawns only what is far out
ShouldRespawnFarOnly(c, a) == FarOut(c.pos)

\* advect.py:345-358: should_respawn
ShouldRespawn(c, a) ==
    \E newSdf \in {Sdf(advSolid, c.pos)} :
        LET falling == 2 * c.vel * grav > GravityAccel
            tooFar == newSdf > MaxDistanceFromSurface /\ ~falling
            tooOld == a > ParticleLifetime * 2
        IN FarOut(c.pos) \/ tooFar \/ tooOld \/ newSdf < -10 * AdvDx

\* a variant in which a committed particle ages by two
CommittedAgeingTwice(c, a, freshOffset) ==
    IF ShouldRespawn(c, a)
    THEN [pos |-> Src + freshOffset, vel |-> EmitVel, age |-> 0 + 1]
    ELSE [pos |-> c.pos, vel |-> c.vel, age |-> a + 2]

\* advect.py:360-373: a born particle after the frame's update, respawned
\* with a fresh offset or moved to its candidate position
Committed(c, a, freshOffset) ==
    IF ShouldRespawn(c, a)
    THEN [pos |-> Src + freshOffset, vel |-> EmitVel, age |-> 0 + 1]
    ELSE [pos |-> c.pos, vel |-> c.vel, age |-> a + 1]

Advected(part, freshOffset) ==
    TheOne({Committed(c, part.age, freshOffset) : c \in {Candidate(part.pos, part.vel)}})

\* advect.py:186-201 random_sphere_offsets: the components along the axis
\* the generator can produce, within the emission radius
OffsetValues == {-EmitRadius, EmitRadius \div 2}

\* advect.py:218-373: one pass of the loop: unborn particles are reset, the
\* positions are stored, born particles are updated
AdvectFrame ==
    /\ apc = "loop"
    /\ frameT < NFrames
    /\ \E fresh \in [Particles -> OffsetValues] :
         \E after \in {[i \in Particles |->
                           IF NotBorn(i, frameT) THEN Pinned(i, frameT)
                           ELSE Advected(Pinned(i, frameT), fresh[i])]} :
            /\ frames' = Append(frames, [i \in Particles |-> Pinned(i, frameT).pos])
            /\ pos' = [i \in Particles |-> after[i].pos]
            /\ vel' = [i \in Particles |-> after[i].vel]
            /\ age' = [i \in Particles |-> after[i].age]
    /\ frameT' = frameT + 1
    /\ UNCHANGED <<apc, avgDx, advSolid, advField, grav, srcRaw, birthFrames, offsets,
                   rngStream, rngCount>>
    /\ UNCHANGED notAdv

\* advect.py:391: the loop is over, frames is returned
AdvectReturn ==
    /\ apc = "loop"
    /\ frameT = NFrames
    /\ apc' = "returned"
    /\ UNCHANGED <<avgDx, advSolid, advField, grav, srcRaw, birthFrames, offsets, pos, vel,
                   age, frames, frameT, rngStream, rngCount>>
    /\ UNCHANGED notAdv

\* The inputs: a solid end of the column, below or above as gravity goes, or
\* a solid point inside; still fluid or a uniform flow of 0.04 either way in
\* the fluid; a source below the grid and two near its last point.
AdvSolidMasks == {{AdvNZ - 1}, {1}}

AdvFieldSpeeds == {-4, 0, 4}

AdvSources == {-AdvDx, (AdvNZ - 3) * AdvDx, (AdvNZ - 2) * AdvDx}

\* spacings of 5 mm and of 10 mm: outside the grid the signed distance reads
\* -100 mm, which is below -10 spacings for the first and not for the second
GridSpacings == {HalfMm(5), HalfMm(10)}

\* advect.py:184: the birth frames, each below emission_duration.  The
\* particles are interchangeable here, so they are numbered by birth.
BirthFrameChoices ==
    {b \in [Particles -> 0..(EmissionDuration - 1)] :
        \A i, j \in Particles : i <= j => b[i] <= b[j]}

\* advect.py:177-213: the state when the loop starts
InitAdvect ==
    /\ apc = "loop"
    /\ avgDx \in GridSpacings
    /\ advSolid \in AdvSolidMasks
    /\ \E speed \in AdvFieldSpeeds :
          advField = [k \in AdvCells |-> IF k \in advSolid THEN 0 ELSE speed]
    /\ grav \in {-1, 1}
    /\ srcRaw \in AdvSources
    /\ birthFrames \in BirthFrameChoices
    /\ offsets \in [Particles -> OffsetValues]
    /\ pos = [i \in Particles |-> Src]
    /\ vel = [i \in Particles |-> EmitVel]
    /\ age = [i \in Particles |-> 0]
    /\ frames = <<>>
    /\ frameT = 0
    /\ rngStream = <<>>
    /\ rngCount = 0

IdleAdvect ==
    /\ apc = "none"
    /\ avgDx = 0
    /\ advSolid = {}
    /\ advField = <<>>
    /\ grav = 0
    /\ srcRaw = 0
    /\ birthFrames = <<>>
    /\ offsets = <<>>
    /\ pos = <<>>
    /\ vel = <<>>
    /\ age = <<>>
    /\ frames = <<>>
    /\ frameT = 0
    /\ rngStream = <<>>
    /\ rngCount = 0

(***************************************************************************)
(* advect.py with its random generator.  rng = default_rng(42) yields one  *)
(* fixed sequence of numbers; the model takes it from a set of sequences   *)
(* of period StreamPeriod whose numbers are 0 (a draw in the lower part of *)
(* its range) or 1 (in the upper part).  Every uniform() or integers()     *)
(* call of n numbers takes the next n of the sequence.                     *)
(***************************************************************************)
StreamPeriod == 4

RngSeed == 42

Streams == [0..(StreamPeriod - 1) -> {0, 1}]

\* advect.py:180: the sequence the generator built in an execution yields;
\* it is set by the seed, whichever execution builds it
DefaultRngUnseeded(seed, execution) ==
    [k \in 0..(StreamPeriod - 1) |-> rngStream[(k + execution - 1) % StreamPeriod]]

DefaultRng(seed, execution) == rngStream

\* the k-th number drawn, k from 0
Draw(stream, k) == stream[k % StreamPeriod]

\* advect.py:184: rng.integers(0, emission_duration)
BirthFrameOf(draw) == (draw * EmissionDuration) \div 2

\* advect.py:189-193, 197: the component along gravity of an offset,
\* r * cos(phi), with phi = pi * draw and r = radius * draw ** (1/3)
SphereOffset(phiDraw, rDraw) ==
    (IF phiDraw = 0 THEN 1 ELSE -1) * (IF rDraw = 0 THEN EmitRadius \div 2 ELSE EmitRadius)

\* advect.py:187-199 random_sphere_offsets(n, radius) called after count
\* numbers were drawn: theta takes n numbers, phi the next n, r the next n;
\* this is the offset of entry number rank (from 0)
RandomSphereOffset(stream, count, n, rank) ==
    SphereOffset(Draw(stream, count + n + rank), Draw(stream, count + 2 * n + rank))

\* advect.py:184, 201: birth_frames and offsets, drawn first
SeededBirths(stream) == [i \in Particles |-> BirthFrameOf(Draw(stream, i - 1))]

SeededOffsets(stream) ==
    [i \in Particles |-> RandomSphereOffset(stream, NParticles, NParticles, i - 1)]

DrawnAtStart == 4 * NParticles

\* advect.py:220-223: the particles after the reset of the unborn
SeededPinned(births, offs, st, tt) ==
    [i \in Particles |->
        IF births[i] > tt
        THEN [pos |-> Src + offs[i], vel |-> EmitVel, age |-> 0]
        ELSE [pos |-> st.pos[i], vel |-> st.vel[i], age |-> st.age[i]]]

\* advect.py:238-335: new_pos and active_vel of the born
SeededCandidates(births, pinned, tt) ==
    [i \in Particles |->
        IF births[i] > tt THEN [pos |-> 0, vel |-> 0]
        ELSE Candidate(pinned[i].pos, pinned[i].vel)]

\* advect.py:358-361: respawn_idx
Respawning(births, pinned, cands, tt) ==
    {i \in Particles : births[i] <= tt /\ ShouldRespawn(cands[i], pinned[i].age)}

\* advect.py:361: np.where lists the respawned in ascending order; the
\* place of particle i in that list, from 0
RankOf(resp, i) == Cardinality({j \in resp : j < i})

\* advect.py:360-373: the state after the pass, and the frame stored in it
SeededCommitted(stream, births, st, tt, pinned, cands, resp) ==
    LET m == Cardinality(resp)
        after == [i \in Particles |->
                    IF births[i] > tt THEN pinned[i]
                    ELSE Committed(cands[i], pinned[i].age,
                                   IF i \in resp
                                   THEN RandomSphereOffset(stream, st.count, m, RankOf(resp, i))
                                   ELSE 0)]
    IN [pos |-> [i \in Particles |-> after[i].pos],
        vel |-> [i \in Particles |-> after[i].vel],
        age |-> [i \in Particles |-> after[i].age],
        frame |-> [i \in Particles |-> pinned[i].pos],
        count |-> st.count + 3 * m]

\* advect.py:218-373: one pass of the loop, from the state st = [pos, vel,
\* age, count]
SeededFrame(stream, births, offs, st, tt) ==
    TheOne({TheOne({TheOne({SeededCommitted(stream, births, st, tt, pinned, cands, resp) :
                              resp \in {Respawning(births, pinned, cands, tt)}}) :
                      cands \in {SeededCandidates(births, pinned, tt)}}) :
              pinned \in {SeededPinned(births, offs, st, tt)}})

\* advect.py:204-206: the state before the first pass
SeededStart ==
    [pos |-> [i \in Particles |-> Src],
     vel |-> [i \in Particles |-> EmitVel],
     age |-> [i \in Particles |-> 0],
     count |-> DrawnAtStart]

\* advect.py:218-373 with the generator of this execution
AdvectFrameSeeded ==
    /\ apc = "seeded"
    /\ frameT < NFrames
    /\ \E nx \in {SeededFrame(rngStream, birthFrames, offsets,
                              [pos |-> pos, vel |-> vel, age |-> age, count |-> rngCount],
                              frameT)} :
          /\ frames' = Append(frames, nx.frame)
          /\ pos' = nx.pos
          /\ vel' = nx.vel
          /\ age' = nx.age
          /\ rngCount' = nx.count
    /\ frameT' = frameT + 1
    /\ UNCHANGED <<apc, avgDx, advSolid, advField, grav, srcRaw, birthFrames, offsets,
                   rngStream>>
    /\ UNCHANGED notAdv

\* advect.py:390: the loop is over, frames is returned
AdvectReturnSeeded ==
    /\ apc = "seeded"
    /\ frameT = NFrames
    /\ apc' = "returned"
    /\ UNCHANGED <<avgDx, advSolid, advField, grav, srcRaw, birthFrames, offsets, pos, vel,
                   age, frames, frameT, rngStream, rngCount>>
    /\ UNCHANGED notAdv

\* advect.py:177-213: the state when the loop starts, with birth frames and
\* offsets drawn from the generator
InitAdvectSeeded ==
    /\ apc = "seeded"
    /\ avgDx \in GridSpacings
    /\ advSolid \in AdvSolidMasks
    /\ \E speed \in AdvFieldSpeeds :
          advField = [k \in AdvCells |-> IF k \in advSolid THEN 0 ELSE speed]
    /\ grav \in {-1, 1}
    /\ srcRaw \in AdvSources
    /\ rngStream \in Streams
    /\ rngCount = DrawnAtStart
    /\ birthFrames = SeededBirths(DefaultRng(RngSeed, 1))
    /\ offsets = SeededOffsets(DefaultRng(RngSeed, 1))
    /\ pos = SeededStart.pos
    /\ vel = SeededStart.vel
    /\ age = SeededStart.age
    /\ frames = <<>>
    /\ frameT = 0

\* a second execution of advect_particles on the inputs of the first, up to
\* the pass the first has reached: with its own generator it draws its birth
\* frames and offsets and runs its passes; the result is its state and the
\* frames it has stored
RECURSIVE SecondExecution(_, _, _, _)
SecondExecution(stream, st, tt, stored) ==
    IF tt = frameT THEN [state |-> st, frames |-> stored]
    ELSE TheOne({SecondExecution(stream,
                                 [pos |-> nx.pos, vel |-> nx.vel, age |-> nx.age,
                                  count |-> nx.count],
                                 tt + 1, Append(stored, nx.frame)) :
                   nx \in {SeededFrame(stream, SeededBirths(stream), SeededOffsets(stream),
                                       st, tt)}})

(***************************************************************************)
(* run_store.py create_run under simultaneous requests.  start_simulation  *)
(* (app.py:41-70) is a plain def, which the server runs on a pool of       *)
(* threads, so calls of create_run overlap.  A request makes one call.     *)
(***************************************************************************)
NRequests == 2

MaxNow == 2

Requests == 1..NRequests

RunIds == 0..MaxNow

NoFiles == [made |-> FALSE, meta |-> 0, status |-> 0]

\* the clock moves on by a millisecond
Tick ==
    /\ now < MaxNow
    /\ now' = now + 1
    /\ UNCHANGED <<runDirs, cpc, runId>>
    /\ UNCHANGED notStore

\* run_store.py:18: run_id = f"run_{int(time.time() * 1000)}"
CreateRunName(r) ==
    /\ cpc[r] = "call"
    /\ runId' = [runId EXCEPT ![r] = now]
    /\ cpc' = [cpc EXCEPT ![r] = "mkdir"]
    /\ UNCHANGED <<now, runDirs>>
    /\ UNCHANGED notStore

\* run_store.py:20: d.mkdir(parents=True, exist_ok=False) makes the
\* directory ...
CreateRunMkdir(r) ==
    /\ cpc[r] = "mkdir"
    /\ ~runDirs[runId[r]].made
    /\ runDirs' = [runDirs EXCEPT ![runId[r]].made = TRUE]
    /\ cpc' = [cpc EXCEPT ![r] = "meta"]
    /\ UNCHANGED <<now, runId>>
    /\ UNCHANGED notStore

\* ... or raises FileExistsError, which nothing catches: the request fails
CreateRunExists(r) ==
    /\ cpc[r] = "mkdir"
    /\ runDirs[runId[r]].made
    /\ cpc' = [cpc EXCEPT ![r] = "failed"]
    /\ UNCHANGED <<now, runDirs, runId>>
    /\ UNCHANGED notStore

\* run_store.py:21: meta.json is written
CreateRunMeta(r) ==
    /\ cpc[r] = "meta"
    /\ runDirs' = [runDirs EXCEPT ![runId[r]].meta = r]
    /\ cpc' = [cpc EXCEPT ![r] = "status"]
    /\ UNCHANGED <<now, runId>>
    /\ UNCHANGED notStore

\* run_store.py:22-26: status.json is written and run_id returned
CreateRunStatus(r) ==
    /\ cpc[r] = "status"
    /\ runDirs' = [runDirs EXCEPT ![runId[r]].status = r]
    /\ cpc' = [cpc EXCEPT ![r] = "returned"]
    /\ UNCHANGED <<now, runId>>
    /\ UNCHANGED notStore

InitStore ==
    /\ now = 0
    /\ runDirs = [d \in RunIds |-> NoFiles]
    /\ cpc = [r \in Requests |-> "call"]
    /\ runId = [r \in Requests |-> -1]

IdleStore ==
    /\ now = 0
    /\ runDirs = <<>>
    /\ cpc = <<>>
    /\ runId = <<>>

(***************************************************************************)
(* The specifications.  Each starts the part of the program it is about    *)
(* and leaves the variables of the other parts at rest.                    *)
(***************************************************************************)
IdleDomain ==
    /\ dpc = "none"
    /\ mesh = {}
    /\ srcIn = <<0, 0>>
    /\ gravityIn = <<0, 0>>
    /\ domain = NoDomain

IdlePipe ==
    /\ pc = "none"
    /\ quality = "medium"
    /\ iter = 0
    /\ statusLog = <<>>
    /\ result = "absent"
    /\ exc = "none"
    /\ escaped = FALSE
    /\ served = "none"

InitPipe ==
    /\ pc = "idle"
    /\ quality = "medium"
    /\ iter = 0
    /\ statusLog = <<>>
    /\ result = "absent"
    /\ exc = "none"
    /\ escaped = FALSE
    /\ served = "none"

Init == InitPipe /\ IdleDomain /\ IdleLbm /\ IdleGrid /\ IdleAdvect /\ IdleStore

Next ==
    \/ StartSimulation
    \/ Checkpoint
    \/ Stage
    \/ LbmIteration
    \/ SaveOpen
    \/ SaveWrite
    \/ Raise
    \/ Handler
    \/ HandlerRaise
    \/ RunResult

Spec == Init /\ [][Next]_vars

InitDomain ==
    /\ dpc = "call"
    /\ mesh \in Meshes
    /\ srcIn \in SourcePoints
    /\ gravityIn \in Gravities
    /\ domain = NoDomain
    /\ IdlePipe
    /\ IdleLbm
    /\ IdleGrid
    /\ IdleAdvect
    /\ IdleStore

NextDomain == BuildDomainFromStl

SpecDomain == InitDomain /\ [][NextDomain]_vars

NextLbm ==
    \/ StepCall
    \/ CollideWithForcing
    \/ Stream
    \/ ApplyBoundaries
    \/ ComputeMacroscopic
    \/ UpdateFillLevel

\* a solver on its own: no run, no domain builder
InitSolver ==
    /\ InitLbm
    /\ IdlePipe
    /\ IdleDomain
    /\ IdleGrid
    /\ IdleAdvect
    /\ IdleStore

SpecLbm == InitSolver /\ [][NextLbm]_vars

\* a solver built and stepped outside the stable range
InitUnstable ==
    /\ InitUnstableLbm
    /\ IdlePipe
    /\ IdleDomain
    /\ IdleGrid
    /\ IdleAdvect
    /\ IdleStore

SpecUnstable == InitUnstable /\ [][NextLbm]_vars

\* a grid sized for a bounding box
InitDims ==
    /\ gpc = "call"
    /\ boxRanges \in Extents \X Extents \X Extents
    /\ baseRes \in BaseResolutions
    /\ dims = <<0, 0, 0>>
    /\ IdlePipe
    /\ IdleDomain
    /\ IdleLbm
    /\ IdleAdvect
    /\ IdleStore

NextDims == DimsFromBoundsCall

SpecDims == InitDims /\ [][NextDims]_vars

\* particles advected through a field
InitParticles ==
    /\ InitAdvect
    /\ IdlePipe
    /\ IdleDomain
    /\ IdleLbm
    /\ IdleGrid
    /\ IdleStore

NextAdvect ==
    \/ AdvectFrame
    \/ AdvectReturn

SpecAdvect == InitParticles /\ [][NextAdvect]_vars

\* particles advected with the generator the program builds
InitSeeded ==
    /\ InitAdvectSeeded
    /\ IdlePipe
    /\ IdleDomain
    /\ IdleLbm
    /\ IdleGrid
    /\ IdleStore

NextSeeded ==
    \/ AdvectFrameSeeded
    \/ AdvectReturnSeeded

SpecSeeded == InitSeeded /\ [][NextSeeded]_vars

\* requests that arrive together
InitRequests ==
    /\ InitStore
    /\ IdlePipe
    /\ IdleDomain
    /\ IdleLbm
    /\ IdleGrid
    /\ IdleAdvect

NextStore ==
    \/ Tick
    \/ \E r \in Requests : CreateRunName(r)
    \/ \E r \in Requests : CreateRunMkdir(r)
    \/ \E r \in Requests : CreateRunExists(r)
    \/ \E r \in Requests : CreateRunMeta(r)
    \/ \E r \in Requests : CreateRunStatus(r)

SpecStore == InitRequests /\ [][NextStore]_vars

(***************************************************************************)
(* Claims about the domain (specification SpecDomain)                      *)
(***************************************************************************)
Returned == dpc = "returned"

\* C7: in every Domain returned, solid, inlet and outlet are pairwise
\* disjoint.
C7_MasksPairwiseDisjoint ==
    Returned =>
        /\ domain.inlet \cap domain.solid = {}
        /\ domain.outlet \cap domain.solid = {}
        /\ domain.inlet \cap domain.outlet = {}

\* C8: no Domain is returned with an empty inlet (a mesh that encloses no
\* lattice point ends in an error, not in a Domain).
C8_InletNeverEmpty ==
    Returned => domain.inlet # {}

\* C17: whatever the source point given, the point the three-way clamping
\* rule produces lies within the bounds of the mesh on every axis.
C17_ClampedSourceInBounds ==
    Returned =>
        \A a \in Axes :
            /\ BLo(mesh)[a] <= ClampSource(mesh, srcIn)[a]
            /\ ClampSource(mesh, srcIn)[a] <= BHi(mesh)[a]

\* C18: in every Domain returned (with an inlet), source_point_mm is the
\* centroid of the coordinates of the inlet cells, to the millimetre.
C18_SourceIsInletCentroid ==
    (Returned /\ domain.inlet # {}) =>
        LET centroid == MeanPoint({CellPoint(mesh, c) : c \in domain.inlet})
        IN \A a \in Axes : Abs(domain.source_point_mm[a] - centroid[a]) <= 1

(***************************************************************************)
(* Claims about the solver (SpecLbm).                                      *)
(***************************************************************************)
AtStepBoundary == lpc = "ready"

\* the substeps logged for step k
SubstepsOf(k) == SelectSeq(substeps, LAMBDA e : e.step = k)

\* C6: every call of step runs collide, stream, boundaries, macroscopic and
\* (only when update_fill is true) fill, each exactly once and in that
\* order, and a step begins only after every substep of the step before it
\* has finished.
C6_SubstepOrder ==
    lpc # "none" =>
        LET order == <<"collide", "stream", "boundaries", "macroscopic", "fill">>
            started == stepsDone + (IF AtStepBoundary THEN 0 ELSE 1)
            Complete(k) ==
                /\ Len(SubstepsOf(k)) > 0
                /\ Len(SubstepsOf(k)) = IF SubstepsOf(k)[1].update_fill THEN 5 ELSE 4
        IN /\ \A i \in 1..Len(substeps) : substeps[i].step \in 1..started
           /\ \A k \in 1..started :
                /\ Len(SubstepsOf(k)) <= 5
                /\ \A i \in 1..Len(SubstepsOf(k)) :
                      /\ SubstepsOf(k)[i].substep = order[i]
                      /\ i = 5 => SubstepsOf(k)[i].update_fill
           /\ \A k \in 1..stepsDone : Complete(k)
           /\ \A i \in 1..(Len(substeps) - 1) :
                \/ substeps[i + 1].step = substeps[i].step
                \/ /\ substeps[i + 1].step = substeps[i].step + 1
                   /\ substeps[i].step <= stepsDone \/ Complete(substeps[i].step)
                   /\ substeps[i].substep =
                        IF substeps[i].update_fill THEN "fill" ELSE "macroscopic"
           /\ ~AtStepBoundary =>
                /\ Len(SubstepsOf(started)) < 5
                /\ lpc = order[Len(SubstepsOf(started)) + 1]

\* two steps have returned, one with and one without the fill-level update
C6_Witness ==
    /\ AtStepBoundary
    /\ stepsDone = 2
    /\ Len(substeps) = 9
    /\ substeps[9].substep = "macroscopic"

\* C9: after construction and after every complete step, every solid cell
\* has velocity 0 and fill level 0 (no inlet cell being solid).
C9_SolidAtRest ==
    AtStepBoundary =>
        \A z \in solid : u[z] = <<0, 0, 0>> /\ fill[z] = 0

\* a solid cell next to moving, partly filled fluid, after a step with and a
\* step without the fill-level update
C9_Witness ==
    /\ AtStepBoundary
    /\ stepsDone = 2
    /\ Len(substeps) = 9
    /\ solid # {}
    /\ gravity # <<0, 0, 0>>
    /\ \E z \in LbmCells \ (solid \cup inlet) : u[z] # <<0, 0, 0>> /\ fill[z] > 0

\* C10: after construction and after every complete step, with non-zero
\* gravity, every inlet cell has density 1, velocity inlet_speed times the
\* inlet direction, and fill level 1.
C10_InletPinned ==
    (AtStepBoundary /\ gravity # <<0, 0, 0>>) =>
        \A z \in inlet :
            /\ rho[z] = RhoUnit
            /\ u[z] = [a \in 1..3 |-> inletDir[a] * inletSpeed]
            /\ fill[z] = FillUnit

\* C11: the bounce-back of the boundary substep exchanges the members of
\* every opposite pair on every solid cell: f[q] after it is f[opp[q]] before
\* it, for every q, and the sum of f over the directions is unchanged.
C11_BounceBackExchanges ==
    [][lpc = "boundaries" =>
        \A z \in solid :
            /\ \A q \in Dirs : f'[q][z] = f[Opposite[q]][z]
            /\ SumF(f', z, 0) = SumF(f, z, 0)]_vars

\* what the rounding of the arithmetic may add to a density: one part in 1000
RhoRounding == RhoUnit \div 1000

\* C12: with disjoint masks, the density of every outlet cell is 1 (to within
\* rounding) at the end of every complete step, and the boundary substep leaves the velocity
\* of the outlet cells as it was.
C12_OutletPressure ==
    /\ []((AtStepBoundary /\ inlet \cap outlet = {}) =>
            \A z \in outlet : Abs(rho[z] - RhoUnit) <= RhoRounding)
    /\ [][(lpc = "boundaries" /\ inlet \cap outlet = {}) =>
            \A z \in outlet : u'[z] = u[z]]_vars

\* the sum of rho over the fluid (non-solid) cells
RECURSIVE SumRho(_, _)
SumRho(r, cells) ==
    IF cells = {} THEN 0
    ELSE LET z == CHOOSE c \in cells : TRUE
         IN r[z] + SumRho(r, cells \ {z})

FluidMass == SumRho(rho, LbmCells \ solid)

InitialFluidMass == RhoUnit * Cardinality(LbmCells \ solid)

NoForcing == gravity = <<0, 0, 0>> /\ inlet = {} /\ outlet = {}

C15_InstabilityAsserted ==
    (lpc # "none" /\ (omegaDen <= 50 \/ inletSpeed > MaxInletSpeed)) =>
        /\ substeps = <<>>
        /\ f = [q \in Dirs |-> [z \in LbmCells |-> Equilibrium(q, RhoUnit, <<0, 0, 0>>)]]

(***************************************************************************)
(* Claims about grid sizing (SpecDims).                                    *)
(***************************************************************************)
\* n is a whole number nearest to a / b (either neighbour at a tie)
IsRounded(n, a, b) == 2 * Abs(n * b - a) <= b

\* C16: for a bounding box of positive largest extent L and a base
\* resolution R of a tier, every grid extent is
\* clamp(round(R * range_i / L), 32, 320).
C16_GridSizing ==
    (gpc = "returned" /\ MaxRange(boxRanges) > 0) =>
        \A a \in 1..3 :
            \E n \in 0..baseRes :
                /\ IsRounded(n, baseRes * boxRanges[a], MaxRange(boxRanges))
                /\ dims[a] = Min(Max(n, 32), 320)

(***************************************************************************)
(* Claims about particle advection (SpecAdvect).                           *)
(***************************************************************************)
\* C19: frames[t] holds every particle's position as it is before the update
\* of frame t; a particle whose birth frame is after t is there at the source
\* plus its emission offset, and its velocity is emit_speed * gravity_dir and
\* its age 0, whatever happened in earlier frames.
C19_UnbornPinned ==
    /\ [](apc # "none" =>
            \A i \in Particles :
                /\ \A tt \in 0..(Len(frames) - 1) :
                      birthFrames[i] > tt => frames[tt + 1][i] = Src + offsets[i]
                /\ (frameT >= 1 /\ birthFrames[i] > frameT - 1) =>
                      /\ pos[i] = Src + offsets[i]
                      /\ vel[i] = grav * EmitSpeed
                      /\ age[i] = 0)
    /\ [][(apc = "loop" /\ frameT < NFrames) =>
            /\ Len(frames') = frameT + 1
            /\ \A i \in Particles :
                  frames'[frameT + 1][i] =
                      IF birthFrames[i] > frameT THEN Src + offsets[i] ELSE pos[i]]_vars

\* the run is over; a particle born in frame 1 was held at its emission
\* point in frame 0 and moved afterwards, next to one born in frame 0
C19_Witness ==
    /\ apc = "returned"
    /\ \E i, j \in Particles :
          /\ birthFrames[i] = 1
          /\ frames[1][i] = Src + offsets[i]
          /\ frames[2][i] = frames[1][i]
          /\ frames[3][i] # frames[2][i]
          /\ birthFrames[j] = 0
          /\ frames[2][j] # frames[1][j]

\* within one domain extent of the grid
InBand(p) == ZMin - DomainSize <= p /\ p <= ZMax + DomainSize

BornNow(i) == apc = "loop" /\ frameT < NFrames /\ birthFrames[i] <= frameT

\* the four conditions of the respawn policy, for a candidate c (position
\* and velocity), the signed distance d at its position and the age a
PolicyFarOut(c) == ~InBand(c.pos)

PolicyDecayed(c, d) == d > 25 * AdvDx /\ 2 * c.vel * grav <= 5 * AdvDx

PolicyTooOld(a) == a > 2 * ((3 * NFrames) \div 2)

PolicyDeep(d) == d < -10 * AdvDx

\* C21: in each frame a born particle is respawned (at the source plus a
\* fresh offset, with the emission velocity, age 0 before the increment) if
\* and only if its candidate position is far out, or decayed while not
\* falling, or the particle is too old, or the candidate is deep in the
\* solid; otherwise it commits the candidate and its age grows by one.
C21_RespawnPolicy ==
    [][\A i \in Particles :
          BornNow(i) =>
              \E c \in {Candidate(pos[i], vel[i])} :
                \E d \in {Sdf(advSolid, c.pos)} :
                  IF PolicyFarOut(c) \/ PolicyDecayed(c, d) \/ PolicyTooOld(age[i]) \/ PolicyDeep(d)
                  THEN /\ pos'[i] - Src \in OffsetValues
                       /\ vel'[i] = grav * EmitSpeed
                       /\ age'[i] = 1
                  ELSE /\ pos'[i] = c.pos
                       /\ vel'[i] = c.vel
                       /\ age'[i] = age[i] + 1]_vars

\* particle i has been through an update and is about to be respawned for
\* the one reason given: 1 far out, 2 decayed, 4 deep in the solid
RespawnsOnlyFor(i, reason) ==
    /\ BornNow(i)
    /\ age[i] >= 1
    /\ \E c \in {Candidate(pos[i], vel[i])} :
         \E d \in {Sdf(advSolid, c.pos)} :
            /\ PolicyFarOut(c) <=> reason = 1
            /\ PolicyDecayed(c, d) <=> reason = 2
            /\ PolicyDeep(d) <=> reason = 4
            /\ ~PolicyTooOld(age[i])

\* two particles have been through an update; now one is about to be
\* respawned only because it decayed, the other only because its candidate
\* is deep in the solid
C21_Witness ==
    \E i, j \in Particles : RespawnsOnlyFor(i, 2) /\ RespawnsOnlyFor(j, 4)

\* C25: in the frame equal to its birth frame, 0 included, a particle is
\* recorded in frames at the source plus its emission offset, and its first
\* update starts from there.
C25_BornAtEmissionPoint ==
    /\ [](apc # "none" =>
            \A i \in Particles :
                Len(frames) > birthFrames[i] =>
                    frames[birthFrames[i] + 1][i] = Src + offsets[i])
    /\ [][\A i \in Particles :
            (apc = "loop" /\ frameT < NFrames /\ birthFrames[i] = frameT) =>
                pos[i] = Src + offsets[i]]_vars

\* C26: within one run of F frames no age exceeds F (nor the number of
\* frames run so far), so the age condition of the respawn policy,
\* age > 2 * floor(1.5 F), holds in no reachable state.
C26_AgeNeverRespawns ==
    apc # "none" =>
        \A i \in Particles :
            /\ age[i] <= frameT
            /\ age[i] <= NFrames
            /\ ~(age[i] > ParticleLifetime * 2)
            /\ ~PolicyTooOld(age[i])

\* the run is over and a particle born in frame 0 was never respawned: its
\* age is F
C26_Witness ==
    /\ apc = "returned"
    /\ \E i \in Particles : birthFrames[i] = 0 /\ age[i] = NFrames

(***************************************************************************)
(* Claims about particle advection with its generator (SpecSeeded).        *)
(***************************************************************************)
\* C22: particles do not interact.  What a pass does to a particle depends on
\* that particle (and the fields and its own draws) only: a respawned
\* particle gets the same new position whatever place it has in the order
\* in which the respawned particles are worked on, and the same as when it
\* is the only particle respawned in the pass.
C22_ParticlesIndependent ==
    [][(apc = "seeded" /\ frameT < NFrames) =>
          \E pinned \in {SeededPinned(birthFrames, offsets,
                                      [pos |-> pos, vel |-> vel, age |-> age,
                                       count |-> rngCount], frameT)} :
            \E cands \in {SeededCandidates(birthFrames, pinned, frameT)} :
              \E resp \in {Respawning(birthFrames, pinned, cands, frameT)} :
                \A i \in resp :
                    /\ \A place \in 0..(Cardinality(resp) - 1) :
                          pos'[i] = Src + RandomSphereOffset(rngStream, rngCount,
                                                             Cardinality(resp), place)
                    /\ pos'[i] = Src + RandomSphereOffset(rngStream, rngCount, 1, 0)]_vars

StatusStates == {"queued", "running", "done", "error"}

Finished == pc = "exit"

\* C1: when simulate_run is over, the last status record is done or error,
\* and if a statement of the try block raised it is the error record of
\* that exception, with its message and a traceback.
C1_ErrorAlwaysRecorded ==
    Finished =>
        /\ LastStatus.state \in {"done", "error"}
        /\ exc # "none" =>
              /\ LastStatus.state = "error"
              /\ LastStatus.message = exc
              /\ LastStatus.traceback

\* C2: whenever the final state of a run is error, no file, partial or
\* complete, exists at the result path.
C2_NoArtifactOnError ==
    (Finished /\ LastStatus.state = "error") => result = "absent"

\* C3: the result path either does not exist or holds the complete
\* artifact, and the result endpoint never serves a partial artifact.
C3_ArtifactAtomic ==
    /\ result \in {"absent", "complete"}
    /\ served # "partial"

\* C4: over the whole sequence of status records of a run, progress lies in
\* [0,1] and never decreases from one record to the next.
C4_ProgressMonotonic ==
    \A k \in 1..Len(statusLog) :
        /\ statusLog[k].progress >= 0
        /\ statusLog[k].progress <= ProgressUnit
        /\ k > 1 => statusLog[k - 1].progress <= statusLog[k].progress

\* a finished high-tier run that reported every loop checkpoint and ended by
\* the error record of a failed done write
C4_Witness ==
    /\ Finished
    /\ quality = "high"
    /\ exc = "status_done"
    /\ LastStatus.state = "error"
    /\ Len(statusLog) = 27

C14_UnknownTierRejected ==
    (quality \notin {"low", "medium", "high"} /\ pc \notin {"none", "idle"}) =>
        /\ iter = 0
        /\ pc \notin {"status_saving", "save_open", "save_write", "status_done"}
        /\ (Finished /\ ~escaped) =>
              LastStatus.state = "error" /\ LastStatus.message # ""

\* C24: whenever the status of a run is done the complete artifact is at the
\* result path: done is written only after the save has returned, the save
\* starts only after advection, and advection only after the last LBM
\* iteration.
C24_DoneAfterArtifact ==
    /\ [](/\ \A k \in 1..Len(statusLog) :
                statusLog[k].state = "done" => result = "complete"
          /\ pc \in {"advect", "status_saving", "save_open", "save_write", "status_done"} =>
                iter = NIter)
    /\ [][/\ (pc' = "status_done" /\ pc # "status_done") => (pc = "save_write" /\ result' = "complete")
          /\ (pc' = "save_open" /\ pc # "save_open") => pc = "status_saving"
          /\ (pc' = "status_saving" /\ pc # "status_saving") => pc = "advect"
          /\ (pc' = "advect" /\ pc # "advect") => (pc = "status_advect" /\ iter = NIter)
          /\ (pc' = "status_advect" /\ pc # "status_advect") => pc = "extract"
          /\ (pc' = "extract" /\ pc # "extract") => (pc = "status_extract" /\ iter = NIter)]_vars

\* the run is over, its status is done and the artifact is complete
C24_Witness ==
    /\ pc = "exit"
    /\ LastStatus.state = "done"
    /\ result = "complete"
    /\ iter = NIter
    /\ exc = "none"

\* C27: any two create_run calls, concurrent ones and ones within the same
\* millisecond included, both succeed and return distinct run ids with
\* separate directories, and no file of a run is written by another call.
C27_RunsDisjoint ==
    /\ [](cpc # <<>> =>
            /\ \A r \in Requests : cpc[r] # "failed"
            /\ \A r1, r2 \in Requests :
                  (r1 # r2 /\ cpc[r1] = "returned" /\ cpc[r2] = "returned") =>
                      runId[r1] # runId[r2]
            /\ \A r \in Requests : \A d \in RunIds :
                  (runDirs[d].meta = r \/ runDirs[d].status = r) => runId[r] = d)
    /\ [][cpc # <<>> =>
            \A d \in RunIds :
                /\ runDirs[d].meta # 0 => runDirs'[d].meta = runDirs[d].meta
                /\ runDirs[d].status # 0 => runDirs'[d].status = runDirs[d].status]_vars

====
